---- MODULE Spec2Model ----
(***************************************************************************)
(* FeedRoom: the trend validation / normalization pipeline of utils.py.    *)
(*                                                                         *)
(* Python values are tagged records; a str is the sequence of its          *)
(* characters, a dict is a function from its keys to values.               *)
(***************************************************************************)
EXTENDS Integers, Sequences, FiniteSets, TLC

VARIABLES
    trends,     \* validate_and_normalize_trends: the batch argument
    platform,   \* the platform argument of either function
    valid,      \* validate_and_normalize_trends: the local list `valid`
    report,     \* validate_and_normalize_trends: the local dict `report`
    idx,        \* number of records the for loop has consumed
    pc,         \* position of the running call
    raised,     \* exception that left the call ("" when none)
    trend,      \* validate_trend_schema: the record argument
    result,     \* validate_trend_schema: what the call produced
    volume_str, \* normalize_volume: the argument
    volume,     \* normalize_volume: what the call produced
    text,       \* parse_json_input: the argument
    candidate,  \* parse_json_input: the local clean_text after line 191
    parsed,     \* parse_json_input: what the call produced
    table,      \* the rows of the deep_dive_research table, in insertion order
    clock,      \* number of timestamps datetime.now() has handed out
    reply       \* what the last deep-dive operation returned

vars == <<trends, platform, valid, report, idx, pc, raised, trend, result, volume_str, volume,
          text, candidate, parsed, table, clock, reply>>

(***************************************************************************)
(* Python values                                                           *)
(***************************************************************************)
VNone == [t |-> "none"]
VStr(s) == [t |-> "str", s |-> s]
VInt(n) == [t |-> "int", n |-> n]
VList(l) == [t |-> "list", l |-> l]
VDict(d) == [t |-> "dict", d |-> d]

EmptyDict == [k \in {} |-> VNone]

Digits == <<"0", "1", "2", "3", "4", "5", "6", "7", "8", "9">>
LowerLetters == <<"a", "b", "c", "d", "e", "f", "g", "h", "i", "j", "k", "l", "m",
                  "n", "o", "p", "q", "r", "s", "t", "u", "v", "w", "x", "y", "z">>
UpperLetters == <<"A", "B", "C", "D", "E", "F", "G", "H", "I", "J", "K", "L", "M",
                  "N", "O", "P", "Q", "R", "S", "T", "U", "V", "W", "X", "Y", "Z">>
Whitespace == {" ", "\t", "\n"}

Range(s) == {s[i] : i \in DOMAIN s}
IsDigit(c) == c \in Range(Digits)
DigitVal(c) == (CHOOSE i \in DOMAIN Digits : Digits[i] = c) - 1

\* str.lower / str.upper, one character
LowerChar(c) ==
    IF c \in Range(UpperLetters)
    THEN LowerLetters[CHOOSE i \in DOMAIN UpperLetters : UpperLetters[i] = c]
    ELSE c
UpperChar(c) ==
    IF c \in Range(LowerLetters)
    THEN UpperLetters[CHOOSE i \in DOMAIN LowerLetters : LowerLetters[i] = c]
    ELSE c
Lower(s) == [i \in DOMAIN s |-> LowerChar(s[i])]
Upper(s) == [i \in DOMAIN s |-> UpperChar(s[i])]

\* str.strip()
RECURSIVE LStrip(_)
LStrip(s) == IF s # <<>> /\ Head(s) \in Whitespace THEN LStrip(Tail(s)) ELSE s
RECURSIVE RStrip(_)
RStrip(s) ==
    IF s # <<>> /\ s[Len(s)] \in Whitespace THEN RStrip(SubSeq(s, 1, Len(s) - 1)) ELSE s
Strip(s) == RStrip(LStrip(s))

\* str.replace(a, b) for a single character a and a string b
RECURSIVE Replace(_, _, _)
Replace(s, a, b) ==
    IF s = <<>> THEN <<>>
    ELSE (IF Head(s) = a THEN b ELSE <<Head(s)>>) \o Replace(Tail(s), a, b)

\* str.split(',')
RECURSIVE SplitAcc(_, _, _)
SplitAcc(s, sep, cur) ==
    IF s = <<>> THEN <<cur>>
    ELSE IF Head(s) = sep THEN <<cur>> \o SplitAcc(Tail(s), sep, <<>>)
    ELSE SplitAcc(Tail(s), sep, Append(cur, Head(s)))
Split(s, sep) == SplitAcc(s, sep, <<>>)

\* the decimal digits of a natural number
RECURSIVE NatStr(_)
NatStr(n) == IF n < 10 THEN <<Digits[n + 1]>> ELSE Append(NatStr(n \div 10), Digits[(n % 10) + 1])

RECURSIVE DigitsVal(_)
DigitsVal(s) == IF s = <<>> THEN 0 ELSE DigitsVal(SubSeq(s, 1, Len(s) - 1)) * 10 + DigitVal(s[Len(s)])

\* repr() of a list of strings, as str() of a list prints it
RECURSIVE ReprItems(_)
ReprItems(l) ==
    IF l = <<>> THEN <<>>
    ELSE <<"'">> \o Head(l).s \o <<"'">>
         \o (IF Len(l) > 1 THEN <<",", " ">> ELSE <<>>) \o ReprItems(Tail(l))

\* str(v); of a dict only the empty one is modelled
PyStr(v) ==
    CASE v.t = "str" -> v.s
      [] v.t = "none" -> <<"N", "o", "n", "e">>
      [] v.t = "int" -> IF v.n < 0 THEN <<"-">> \o NatStr(-v.n) ELSE NatStr(v.n)
      [] v.t = "list" -> <<"[">> \o ReprItems(v.l) \o <<"]">>
      [] v.t = "dict" /\ DOMAIN v.d = {} -> <<"{", "}">>

\* bool(v)
Truthy(v) ==
    CASE v.t = "none" -> FALSE
      [] v.t = "str" -> v.s # <<>>
      [] v.t = "int" -> v.n # 0
      [] v.t = "list" -> v.l # <<>>
      [] v.t = "dict" -> DOMAIN v.d # {}

\* the digit groups of an int literal: digits, single underscores between them
IntBody(s) ==
    /\ s # <<>>
    /\ IsDigit(s[1]) /\ IsDigit(s[Len(s)])
    /\ \A i \in DOMAIN s : IsDigit(s[i]) \/ s[i] = "_"
    /\ \A i \in 1..(Len(s) - 1) : ~(s[i] = "_" /\ s[i + 1] = "_")

\* int(v): [exc |-> "", n |-> value] or [exc |-> the exception raised]
PyIntOfStr(s) ==
    LET b == Strip(s)
        neg == b # <<>> /\ b[1] = "-"
        signed == b # <<>> /\ b[1] \in {"-", "+"}
        body == IF signed THEN Tail(b) ELSE b
    IN  IF IntBody(body)
        THEN [exc |-> "", n |-> (IF neg THEN -1 ELSE 1) * DigitsVal(SelectSeq(body, IsDigit))]
        ELSE [exc |-> "ValueError", n |-> 0]
PyInt(v) ==
    CASE v.t = "int" -> [exc |-> "", n |-> v.n]
      [] v.t = "str" -> PyIntOfStr(v.s)
      [] OTHER -> [exc |-> "TypeError", n |-> 0]

(***************************************************************************)
(* normalize_volume                                                        *)
(***************************************************************************)
\* re.sub(r'[^\d.KMB]', '', s)
KeepVolumeChar(c) == IsDigit(c) \/ c \in {".", "K", "M", "B"}

\* float(s) for a string of digits, '.', and suffix letters: the value as
\* digits / 10^scale, or a failure
PyFloat(s) ==
    LET dots == {i \in DOMAIN s : s[i] = "."}
        ds == SelectSeq(s, IsDigit)
    IN  IF /\ \A i \in DOMAIN s : IsDigit(s[i]) \/ s[i] = "."
           /\ Cardinality(dots) <= 1
           /\ ds # <<>>
        THEN [exc |-> "", m |-> DigitsVal(ds),
              scale |-> IF dots = {} THEN 0 ELSE Len(s) - (CHOOSE i \in dots : TRUE)]
        ELSE [exc |-> "ValueError", m |-> 0, scale |-> 0]

RECURSIVE Pow10(_)
Pow10(k) == IF k = 0 THEN 1 ELSE 10 * Pow10(k - 1)

\* what a call of normalize_volume produces: the exception that left it, or n
VolumeOf(n) == [exc |-> "", n |-> n]

\* lines 26-32, one branch: int(float(s) * mult)
TryVolume(s, mult) ==
    LET f == PyFloat(s)
    IN  IF f.exc # "" THEN [exc |-> f.exc, n |-> 0]
        ELSE VolumeOf((f.m * mult) \div Pow10(f.scale))

\* lines 33-34: the bare except turns whatever the try block raised into 0
ExceptVolume(r) == IF r.exc # "" THEN VolumeOf(0) ELSE r

\* int(float(s) * mult) inside the try block
ScaledVolume(s, mult) == ExceptVolume(TryVolume(s, mult))

normalize_volume(v) ==
    IF v = VNone \/ v = VStr(<<>>) THEN VolumeOf(0)
    ELSE LET s == SelectSeq(Upper(Strip(PyStr(v))), KeepVolumeChar)
         IN  IF s = <<>> THEN VolumeOf(0)
             ELSE IF "K" \in Range(s) THEN ScaledVolume(Replace(s, "K", <<>>), 1000)
             ELSE IF "M" \in Range(s) THEN ScaledVolume(Replace(s, "M", <<>>), 1000000)
             ELSE IF "B" \in Range(s) THEN ScaledVolume(Replace(s, "B", <<>>), 1000000000)
             ELSE ScaledVolume(s, 1)

(***************************************************************************)
(* parse_json_input                                                        *)
(***************************************************************************)
VBool(b) == [t |-> "bool", b |-> b]
\* the backquote character (a TLA+ string cannot hold it)
Backquote == "BACKQUOTE"
S_fence == <<Backquote, Backquote, Backquote>>
S_json_fence == S_fence \o <<"j", "s", "o", "n">>

\* sub occurs in s at position i
OccursAt(s, sub, i) == i + Len(sub) - 1 <= Len(s) /\ SubSeq(s, i, i + Len(sub) - 1) = sub
\* sub in s
Contains(s, sub) == \E i \in 1..Len(s) : OccursAt(s, sub, i)
\* s.find(c) for a character, as a Python index (-1 when absent)
Find(s, c) ==
    IF c \in Range(s) THEN (CHOOSE i \in DOMAIN s : s[i] = c /\ \A j \in 1..(i - 1) : s[j] # c) - 1
    ELSE -1
\* mutant of RFind: the first occurrence is taken instead of the last
RFind_First(s, c) == Find(s, c)

\* s.rfind(c) for a character, as a Python index (-1 when absent)
RFind(s, c) ==
    IF c \in Range(s)
    THEN (CHOOSE i \in DOMAIN s : s[i] = c /\ \A j \in (i + 1)..Len(s) : s[j] # c) - 1
    ELSE -1
\* s.split(sub) for a non-empty separator
RECURSIVE SplitSub(_, _)
SplitSub(s, sub) ==
    IF ~Contains(s, sub) THEN <<s>>
    ELSE LET i == CHOOSE k \in 1..Len(s) : OccursAt(s, sub, k) /\ \A j \in 1..(k - 1) : ~OccursAt(s, sub, j)
         IN  <<SubSeq(s, 1, i - 1)>> \o SplitSub(SubSeq(s, i + Len(sub), Len(s)), sub)

\* json.loads: a value of the JSON grammar with nothing but whitespace around
\* it; strings without escapes, numbers without sign, fraction or exponent
JsonWhitespace == {" ", "\t", "\n", "\r"}
JsonFail == [ok |-> FALSE, v |-> VNone, i |-> 0]
JsonOk(v, i) == [ok |-> TRUE, v |-> v, i |-> i]
\* the first position from i on that holds no whitespace, Len(s) + 1 if none
NextToken(s, i) ==
    IF \E j \in i..Len(s) : s[j] \notin JsonWhitespace
    THEN CHOOSE j \in i..Len(s) : s[j] \notin JsonWhitespace /\ \A k \in i..(j - 1) : s[k] \in JsonWhitespace
    ELSE Len(s) + 1
\* a string literal whose opening quote is at i
JsonString(s, i) ==
    IF \E j \in (i + 1)..Len(s) : s[j] = "\""
    THEN LET j == CHOOSE k \in (i + 1)..Len(s) : s[k] = "\"" /\ \A m \in (i + 1)..(k - 1) : s[m] # "\""
         IN  IF \E m \in (i + 1)..(j - 1) : s[m] \in {"\\", "\t", "\n", "\r"} THEN JsonFail
             ELSE JsonOk(VStr(SubSeq(s, i + 1, j - 1)), j + 1)
    ELSE JsonFail
\* a number whose first digit is at i
JsonNumber(s, i) ==
    LET j == IF \E k \in i..Len(s) : ~IsDigit(s[k])
             THEN CHOOSE k \in i..Len(s) : ~IsDigit(s[k]) /\ \A m \in i..(k - 1) : IsDigit(s[m])
             ELSE Len(s) + 1
    IN  IF s[i] = "0" /\ j > i + 1 THEN JsonOk(VInt(0), i + 1)
        ELSE JsonOk(VInt(DigitsVal(SubSeq(s, i, j - 1))), j)
JsonLiterals ==
    {[w |-> <<"t", "r", "u", "e">>, v |-> VBool(TRUE)],
     [w |-> <<"f", "a", "l", "s", "e">>, v |-> VBool(FALSE)],
     [w |-> <<"n", "u", "l", "l">>, v |-> VNone]}

RECURSIVE JsonValue(_, _)
RECURSIVE JsonMembers(_, _, _)
RECURSIVE JsonElements(_, _, _)
\* the members after '{' or after a ',', d the members read so far
JsonMembers(s, i, d) ==
    LET k == NextToken(s, i)
    IN  IF k > Len(s) \/ s[k] # "\"" THEN JsonFail
        ELSE LET key == JsonString(s, k)
                 c == NextToken(s, key.i)
             IN  IF ~key.ok \/ c > Len(s) \/ s[c] # ":" THEN JsonFail
                 ELSE LET val == JsonValue(s, c + 1)
                          e == NextToken(s, val.i)
                          d2 == [x \in DOMAIN d \cup {key.v.s} |-> IF x = key.v.s THEN val.v ELSE d[x]]
                      IN  IF ~val.ok \/ e > Len(s) THEN JsonFail
                          ELSE IF s[e] = "}" THEN JsonOk(VDict(d2), e + 1)
                          ELSE IF s[e] = "," THEN JsonMembers(s, e + 1, d2)
                          ELSE JsonFail
\* the elements after '[' or after a ',', l the elements read so far
JsonElements(s, i, l) ==
    LET val == JsonValue(s, i)
        e == NextToken(s, val.i)
    IN  IF ~val.ok \/ e > Len(s) THEN JsonFail
        ELSE IF s[e] = "]" THEN JsonOk(VList(Append(l, val.v)), e + 1)
        ELSE IF s[e] = "," THEN JsonElements(s, e + 1, Append(l, val.v))
        ELSE JsonFail
JsonValue(s, i) ==
    LET k == NextToken(s, i)
    IN  IF k > Len(s) THEN JsonFail
        ELSE IF s[k] = "{"
        THEN LET m == NextToken(s, k + 1)
             IN  IF m <= Len(s) /\ s[m] = "}" THEN JsonOk(VDict(EmptyDict), m + 1)
                 ELSE JsonMembers(s, k + 1, EmptyDict)
        ELSE IF s[k] = "["
        THEN LET m == NextToken(s, k + 1)
             IN  IF m <= Len(s) /\ s[m] = "]" THEN JsonOk(VList(<<>>), m + 1)
                 ELSE JsonElements(s, k + 1, <<>>)
        ELSE IF s[k] = "\"" THEN JsonString(s, k)
        ELSE IF IsDigit(s[k]) THEN JsonNumber(s, k)
        ELSE IF \E lit \in JsonLiterals : OccursAt(s, lit.w, k)
        THEN LET lit == CHOOSE x \in JsonLiterals : OccursAt(s, x.w, k)
             IN  JsonOk(lit.v, k + Len(lit.w))
        ELSE JsonFail

\* what a call of parse_json_input produces, and the outcome of json.loads
ParseOf(exc, value) == [exc |-> exc, value |-> value]
NoParse == ParseOf("", VNone)
json_loads(s) ==
    LET r == JsonValue(s, 1)
    IN  IF r.ok /\ NextToken(s, r.i) > Len(s) THEN ParseOf("", r.v)
        ELSE ParseOf("JSONDecodeError", VNone)

\* mutant of FenceCandidate: the fences are not looked at
FenceCandidate_NoFence(clean_text) == clean_text

\* mutant of FenceCandidate: the test for a plain fence comes first
FenceCandidate_GenericFirst(clean_text) ==
    IF Contains(clean_text, S_fence)
    THEN SplitSub(SplitSub(clean_text, S_fence)[2], S_fence)[1]
    ELSE IF Contains(clean_text, S_json_fence)
    THEN SplitSub(SplitSub(clean_text, S_json_fence)[2], S_fence)[1]
    ELSE clean_text

\* lines 184-188: the content of the first fenced block
FenceCandidate(clean_text) ==
    IF Contains(clean_text, S_json_fence)
    THEN SplitSub(SplitSub(clean_text, S_json_fence)[2], S_fence)[1]
    ELSE IF Contains(clean_text, S_fence)
    THEN SplitSub(SplitSub(clean_text, S_fence)[2], S_fence)[1]
    ELSE clean_text

\* lines 194-200: from the first '{' to the last '}' when both are there
BraceSlice(clean_text) ==
    LET start_idx == Find(clean_text, "{")
        end_idx == RFind(clean_text, "}")
    IN  IF start_idx # -1 /\ end_idx # -1
        THEN SubSeq(clean_text, start_idx + 1, end_idx + 1)
        ELSE clean_text

\* mutant of ExceptParse: the handler lets the exception through
ExceptParse_Reraise(r) == r

\* lines 202-204: the handler turns every exception into None
ExceptParse(r) == IF r.exc # "" THEN NoParse ELSE r

\* lines 179-202, the try block; x.strip() exists on a str only
TryParse(x) ==
    IF x.t # "str" THEN ParseOf("AttributeError", VNone)
    ELSE json_loads(BraceSlice(Strip(FenceCandidate(Strip(x.s)))))

\* lines 175-204
parse_json_input(x) ==
    IF ~Truthy(x) THEN NoParse ELSE ExceptParse(TryParse(x))

(***************************************************************************)
(* validate_trend_schema                                                   *)
(***************************************************************************)
S_USA == <<"U", "S", "A">>
S_India == <<"I", "n", "d", "i", "a">>
S_curious == <<"c", "u", "r", "i", "o", "u", "s">>
S_excited == <<"e", "x", "c", "i", "t", "e", "d">>
S_concerned == <<"c", "o", "n", "c", "e", "r", "n", "e", "d">>
S_celebrating == <<"c", "e", "l", "e", "b", "r", "a", "t", "i", "n", "g">>
S_controversial == <<"c", "o", "n", "t", "r", "o", "v", "e", "r", "s", "i", "a", "l">>
S_positive == <<"p", "o", "s", "i", "t", "i", "v", "e">>
S_negative == <<"n", "e", "g", "a", "t", "i", "v", "e">>
S_neutral == <<"n", "e", "u", "t", "r", "a", "l">>
S_mixed == <<"m", "i", "x", "e", "d">>
S_moderate == <<"m", "o", "d", "e", "r", "a", "t", "e">>
S_search == <<"s", "e", "a", "r", "c", "h">>
S_keyword == <<"k", "e", "y", "w", "o", "r", "d">>
S_steady == <<"s", "t", "e", "a", "d", "y">>
S_Unknown == <<"U", "n", "k", "n", "o", "w", "n">>

\* the spelling of the dict keys the required-field loop looks up
FieldChars ==
    [region |-> <<"r", "e", "g", "i", "o", "n">>,
     rank |-> <<"r", "a", "n", "k">>,
     keyword |-> S_keyword,
     search_volume |-> <<"s", "e", "a", "r", "c", "h", "_", "v", "o", "l", "u", "m", "e">>,
     mention_volume |-> <<"m", "e", "n", "t", "i", "o", "n", "_", "v", "o", "l", "u", "m", "e">>,
     category |-> <<"c", "a", "t", "e", "g", "o", "r", "y">>,
     velocity |-> <<"v", "e", "l", "o", "c", "i", "t", "y">>]

required ==
    [google |-> <<"region", "rank", "keyword", "search_volume", "category", "velocity">>,
     twitter |-> <<"region", "rank", "keyword", "mention_volume", "category", "velocity">>]

\* mutant of Get: a missing key gives None, whatever the default
Get_NoDefault(d, k, default) == IF k \in DOMAIN d THEN d[k] ELSE VNone

\* dict.get(k, default), and a dict with the items of u written over it
Get(d, k, default) == IF k \in DOMAIN d THEN d[k] ELSE default
Update(d, u) == [k \in DOMAIN d \cup DOMAIN u |-> IF k \in DOMAIN u THEN u[k] ELSE d[k]]

\* what a call leaves: an exception, or the returned (is_valid, errors, normalized)
Raise(e) == [exc |-> e, ok |-> FALSE, errors |-> <<>>, normalized |-> VNone]
Return(ok, errors, normalized) ==
    [exc |-> "", ok |-> ok, errors |-> errors, normalized |-> normalized]

\* mutant of FieldMissing: the value is compared with '' without strip()
FieldMissing_NoStrip(d, field) ==
    \/ field \notin DOMAIN d
    \/ d[field] = VNone
    \/ PyStr(d[field]) = <<>>

\* `field not in trend or trend[field] is None or str(trend[field]).strip() == ''`
FieldMissing(d, field) ==
    \/ field \notin DOMAIN d
    \/ d[field] = VNone
    \/ Strip(PyStr(d[field])) = <<>>

\* mutant of MissingErrors: the loop stops at the first missing field
RECURSIVE MissingErrors_FailFast(_, _)
MissingErrors_FailFast(d, fields) ==
    IF fields = <<>> THEN <<>>
    ELSE IF FieldMissing(d, Head(fields))
    THEN <<[kind |-> "Missing or empty", field |-> Head(fields)]>>
    ELSE MissingErrors_FailFast(d, Tail(fields))

\* lines 47-49
RECURSIVE MissingErrors(_, _)
MissingErrors(d, fields) ==
    IF fields = <<>> THEN <<>>
    ELSE (IF FieldMissing(d, Head(fields))
          THEN <<[kind |-> "Missing or empty", field |-> Head(fields)]>>
          ELSE <<>>) \o MissingErrors(d, Tail(fields))

\* mutant of StrippedItems: the items that are blank once stripped are kept
RECURSIVE StrippedItems_KeepEmpty(_)
StrippedItems_KeepEmpty(parts) ==
    IF parts = <<>> THEN <<>>
    ELSE <<VStr(Strip(Head(parts)))>> \o StrippedItems_KeepEmpty(Tail(parts))

\* lines 74-81 and 125-132: the list field from a str, a list or anything else
RECURSIVE StrippedItems(_)
StrippedItems(parts) ==
    IF parts = <<>> THEN <<>>
    ELSE (IF Strip(Head(parts)) # <<>> THEN <<VStr(Strip(Head(parts)))>> ELSE <<>>)
         \o StrippedItems(Tail(parts))
RelatedList(related) ==
    CASE related.t = "str" -> VList(StrippedItems(Split(related.s, ",")))
      [] related.t = "list" -> related
      [] OTHER -> VList(<<>>)

\* lines 69-81: [exc, u] with u the keys the google branch writes
GoogleFields(d) ==
    LET score == PyInt(Get(d, "sentiment_score", VInt(50)))
    IN  IF score.exc # "" THEN [exc |-> score.exc, u |-> EmptyDict]
        ELSE [exc |-> "",
              u |-> [search_volume |-> VInt(normalize_volume(Get(d, "search_volume", VInt(0))).n),
                     public_sentiment |->
                         VStr(Lower(PyStr(Get(d, "public_sentiment", VStr(S_curious))))),
                     sentiment_score |-> VInt(score.n),
                     trend_type |-> VStr(PyStr(Get(d, "trend_type", VStr(S_search)))),
                     related_searches |-> RelatedList(Get(d, "related_searches", VList(<<>>)))]]

\* mutant of sentiment_map: "mixed" has no entry in the table
sentiment_map_NoMixed(primary_sent) ==
    CASE primary_sent = S_positive -> S_excited
      [] primary_sent = S_negative -> S_concerned
      [] primary_sent = S_neutral -> S_curious
      [] OTHER -> primary_sent

\* lines 87-94
sentiment_map(primary_sent) ==
    CASE primary_sent = S_positive -> S_excited
      [] primary_sent = S_negative -> S_concerned
      [] primary_sent = S_neutral -> S_curious
      [] primary_sent = S_mixed -> S_controversial
      [] OTHER -> primary_sent

\* mutant of DefaultBreakdown: the controversial table starts at 70 like the others
DefaultBreakdown_Controversial70(primary) ==
    CASE primary = S_excited -> [excited |-> VInt(70), curious |-> VInt(20), celebrating |-> VInt(10)]
      [] primary = S_concerned -> [concerned |-> VInt(70), curious |-> VInt(20), controversial |-> VInt(10)]
      [] primary = S_celebrating -> [celebrating |-> VInt(70), excited |-> VInt(20), curious |-> VInt(10)]
      [] primary = S_controversial -> [controversial |-> VInt(70), concerned |-> VInt(20), curious |-> VInt(20)]
      [] OTHER -> [curious |-> VInt(60), excited |-> VInt(20), concerned |-> VInt(20)]

\* lines 103-112: the breakdown generated from the mapped primary sentiment
DefaultBreakdown(primary) ==
    CASE primary = S_excited -> [excited |-> VInt(70), curious |-> VInt(20), celebrating |-> VInt(10)]
      [] primary = S_concerned -> [concerned |-> VInt(70), curious |-> VInt(20), controversial |-> VInt(10)]
      [] primary = S_celebrating -> [celebrating |-> VInt(70), excited |-> VInt(20), curious |-> VInt(10)]
      [] primary = S_controversial -> [controversial |-> VInt(60), concerned |-> VInt(20), curious |-> VInt(20)]
      [] OTHER -> [curious |-> VInt(60), excited |-> VInt(20), concerned |-> VInt(20)]

SentimentKeys == <<"excited", "concerned", "curious", "celebrating", "controversial">>

\* mutant of Aggregates: celebrating is left out of the positive bucket
Aggregates_NoCelebrating(five) ==
    [sentiment_positive |-> VInt(five[1].n),
     sentiment_neutral |-> VInt(five[3].n),
     sentiment_negative |-> VInt(five[2].n + five[5].n)]

\* lines 121-123: the aggregate buckets, five in the order of SentimentKeys
Aggregates(five) ==
    [sentiment_positive |-> VInt(five[1].n + five[4].n),
     sentiment_neutral |-> VInt(five[3].n),
     sentiment_negative |-> VInt(five[2].n + five[5].n)]

\* lines 84-132: [exc, u] with u the keys the twitter branch writes
TwitterFields(d) ==
    LET primary == sentiment_map(Lower(PyStr(Get(d, "primary_sentiment", VStr(S_curious)))))
        given == Get(d, "sentiment_breakdown", VDict(EmptyDict))
        breakdown == IF ~Truthy(given) \/ given.t # "dict"
                     THEN DefaultBreakdown(primary) ELSE given.d
        ints == [i \in DOMAIN SentimentKeys |-> PyInt(Get(breakdown, SentimentKeys[i], VInt(0)))]
        bad == {i \in DOMAIN ints : ints[i].exc # ""}
    IN  IF bad # {}
        THEN [exc |-> ints[CHOOSE i \in bad : \A j \in bad : i <= j].exc, u |-> EmptyDict]
        ELSE [exc |-> "",
              u |-> Update(
                    [mention_volume |-> VInt(normalize_volume(Get(d, "mention_volume", VInt(0))).n),
                     primary_sentiment |-> VStr(primary),
                     sentiment_intensity |->
                         VStr(Lower(PyStr(Get(d, "sentiment_intensity", VStr(S_moderate))))),
                     hashtag_type |-> VStr(PyStr(Get(d, "hashtag_type", VStr(S_keyword)))),
                     sentiment_excited |-> VInt(ints[1].n),
                     sentiment_concerned |-> VInt(ints[2].n),
                     sentiment_curious |-> VInt(ints[3].n),
                     sentiment_celebrating |-> VInt(ints[4].n),
                     sentiment_controversial |-> VInt(ints[5].n),
                     related_hashtags |-> RelatedList(Get(d, "related_hashtags", VList(<<>>)))],
                    Aggregates(ints))]

\* mutant of NormalizeVelocity: hyphens are left in place
NormalizeVelocity_NoHyphen(v) == Replace(Lower(PyStr(v)), " ", <<"_">>)

\* line 135
NormalizeVelocity(v) ==
    Replace(Replace(Lower(PyStr(v)), " ", <<"_">>), "-", <<"_">>)

\* lines 134-138
CommonFields(d) ==
    [velocity |-> VStr(NormalizeVelocity(Get(d, "velocity", VStr(S_steady)))),
     category |-> VStr(PyStr(Get(d, "category", VStr(S_Unknown)))),
     context |-> VStr(PyStr(Get(d, "context", VStr(<<>>)))),
     why_trending |-> VStr(PyStr(Get(d, "why_trending", VStr(<<>>))))]

\* mutant of RegionRankErrors: the region is not checked against the closed set
RegionRankErrors_AnyRegion(d) ==
    IF PyInt(d["rank"]).exc # ""
    THEN <<[kind |-> "Invalid rank", val |-> d["rank"]]>> ELSE <<>>

\* lines 54-62: the region and rank errors, in the order they are appended
RegionRankErrors(d) ==
    (IF d["region"] \notin {VStr(S_USA), VStr(S_India)}
     THEN <<[kind |-> "Invalid region", val |-> d["region"]]>> ELSE <<>>)
    \o (IF PyInt(d["rank"]).exc # ""
        THEN <<[kind |-> "Invalid rank", val |-> d["rank"]]>> ELSE <<>>)

\* mutant of NormalizeKeyword: the keyword is converted but not stripped
NormalizeKeyword_NoStrip(v) == VStr(PyStr(v))

\* line 65: str(trend['keyword']).strip()
NormalizeKeyword(v) == VStr(Strip(PyStr(v)))

\* lines 54-140, for a dict with every required field present
Normalize(d, plat) ==
    LET errors == RegionRankErrors(d)
        rk == PyInt(d["rank"])
        n1 == IF rk.exc = "" THEN Update(d, [rank |-> VInt(rk.n)]) ELSE d
        n2 == Update(n1, [keyword |-> NormalizeKeyword(d["keyword"])])
        pf == IF plat = "google" THEN GoogleFields(d) ELSE TwitterFields(d)
    IN  IF pf.exc # "" THEN Raise(pf.exc)
        ELSE Return(errors = <<>>, errors, VDict(Update(Update(n2, pf.u), CommonFields(d))))

\* mutant of SameObject: line 44 binds normalized to the argument itself
SameObject_NoCopy == TRUE

\* line 44: trend.copy() is a new dict, so `normalized` and `trend` are not
\* the same object
SameObject == FALSE

\* the argument as the caller sees it after the call that produced r: lines
\* 60-138 assign to keys of `normalized` only and mutate no value they read, so
\* they show in the argument just when the two names are one object (if the
\* call raised, the writes done before the raise are left out)
TrendAfter(tr, r) ==
    IF SameObject /\ r.exc = "" /\ r.normalized # VNone THEN r.normalized ELSE tr

\* line 140: what is returned once the normalization has run
validate_trend_schema(tr, plat) ==
    IF tr.t \notin {"dict", "list"} THEN Raise("AttributeError")        \* line 44, .copy()
    ELSE IF plat \notin DOMAIN required THEN Raise("KeyError")          \* line 47
    ELSE IF tr.t = "list"
    THEN IF \E f \in Range(required[plat]) : VStr(FieldChars[f]) \in Range(tr.l)
         THEN Raise("TypeError")                                        \* line 48, list[str]
         ELSE Return(FALSE,
                     [i \in DOMAIN required[plat] |->
                         [kind |-> "Missing or empty", field |-> required[plat][i]]],
                     VNone)
    ELSE LET errors == MissingErrors(tr.d, required[plat])
         IN  IF errors # <<>> THEN Return(FALSE, errors, VNone)         \* lines 51-52
             ELSE Normalize(tr.d, plat)

(***************************************************************************)
(* validate_and_normalize_trends                                           *)
(***************************************************************************)
\* line 145
NewReport(total) == [total |-> total, valid |-> 0, invalid |-> 0, errors |-> <<>>]

\* mutant of LedgerEntry: the ledger counts records from 1
LedgerEntry_OneBased(i, tr, errors) ==
    [index |-> i + 1, keyword |-> Get(tr.d, "keyword", VStr(S_Unknown)), errors |-> errors]

\* lines 156-160 and 163-167: the ledger entry; trend.get exists on a dict only
LedgerEntry(i, tr, errors) ==
    [index |-> i, keyword |-> Get(tr.d, "keyword", VStr(S_Unknown)), errors |-> errors]

\* mutant of Accepts: a normalized record is accepted whatever is_valid says
Accepts_IgnoresIsValid(r) == Truthy(r.normalized)

\* line 151: `is_valid and normalized`
Accepts(r) == r.ok /\ Truthy(r.normalized)

\* mutant of AcceptRecord: the record is put in front of the list
AcceptRecord_Prepend(r, v, rep) ==
    [exc |-> "", valid |-> <<r.normalized>> \o v, report |-> [rep EXCEPT !.valid = @ + 1]]

\* lines 152-153
AcceptRecord(r, v, rep) ==
    [exc |-> "", valid |-> Append(v, r.normalized), report |-> [rep EXCEPT !.valid = @ + 1]]

\* mutant of RejectRecord: the invalid counter is not advanced
RejectRecord_NoCount(i, tr, errors, v, rep) ==
    [exc |-> "", valid |-> v,
     report |-> [rep EXCEPT !.errors = Append(@, LedgerEntry(i, tr, errors))]]

\* lines 155-160, and lines 162-167 of the handler, for a dict
RejectRecord(i, tr, errors, v, rep) ==
    [exc |-> "", valid |-> v,
     report |-> [rep EXCEPT !.invalid = @ + 1,
                            !.errors = Append(@, LedgerEntry(i, tr, errors))]]

\* trend.get raises AttributeError on anything but a dict: in the handler (after
\* line 162), or in the try (after line 155) and then again in the handler; the
\* exception leaves the function, k counts the `invalid += 1` already executed
Abort(v, rep, k) ==
    [exc |-> "AttributeError", valid |-> v, report |-> [rep EXCEPT !.invalid = @ + k]]

\* lines 150-167: what the loop body does with r, the outcome of the call of
\* line 149; exc is the exception that leaves the function, "" when none does
Dispatch(r, tr, i, v, rep) ==
    IF r.exc = "" /\ Accepts(r) THEN AcceptRecord(r, v, rep)
    ELSE IF r.exc = "" /\ tr.t = "dict" THEN RejectRecord(i, tr, r.errors, v, rep)
    ELSE IF r.exc = "" THEN Abort(v, rep, 2)
    ELSE IF tr.t = "dict"
    THEN RejectRecord(i, tr, <<[kind |-> "Validation error", exc |-> r.exc]>>, v, rep)
    ELSE Abort(v, rep, 1)

\* the locals after the loop body, and the record of the batch after the call
LoopBody(r, tr, i, v, rep) ==
    [out |-> Dispatch(r, tr, i, v, rep), trend |-> TrendAfter(tr, r)]

\* lines 148-167: one pass of the loop body over record tr at index i
ProcessRecord(tr, plat, i, v, rep) ==
    LoopBody(validate_trend_schema(tr, plat), tr, i, v, rep)

(***************************************************************************)
(* Inputs                                                                  *)
(***************************************************************************)
MaxBatch == 3

\* the two tags of `required`, and the tag the specification uses for google
Platforms == {"google", "twitter", "search"}

Absent == [t |-> "absent"]
\* the dict holding the keys of c that are not Absent
MakeTrend(c) == VDict([k \in {x \in DOMAIN c : c[x] # Absent} |-> c[k]])

S_ai == <<"a", "i">>
S_Tech == <<"T", "e", "c", "h">>
S_RisingFast == <<"R", "i", "s", "i", "n", "g", " ", "F", "a", "s", "t">>
S_Canada == <<"C", "a", "n", "a", "d", "a">>
S_abc == <<"a", "b", "c">>
S_5K == <<"5", "K">>
S_blank == <<" ", "\t">>

GoogleBase ==
    [region |-> VStr(S_USA), rank |-> VInt(1), keyword |-> VStr(S_ai),
     search_volume |-> VStr(S_5K), category |-> VStr(S_Tech),
     velocity |-> VStr(S_RisingFast)]
GoogleIndia ==
    [GoogleBase EXCEPT !.region = VStr(S_India), !.rank = VStr(<<"2">>),
                       !.search_volume = VInt(-5)]
TwitterBase ==
    [region |-> VStr(S_India), rank |-> VStr(<<"2">>), keyword |-> VStr(<<" ", "x", " ">>),
     mention_volume |-> VStr(<<"1", ".", "5", "M">>), category |-> VStr(S_Tech),
     velocity |-> VStr(<<"r", "i", "s", "i", "n", "g", "-", "f", "a", "s", "t">>),
     primary_sentiment |-> VStr(<<"P", "o", "s", "i", "t", "i", "v", "e">>)]

\* the records a batch is drawn from
BatchPool ==
    {MakeTrend(GoogleBase),
     MakeTrend(GoogleIndia),
     MakeTrend([GoogleBase EXCEPT !.region = VStr(S_Canada)]),
     MakeTrend([GoogleBase EXCEPT !.keyword = Absent]),
     MakeTrend([GoogleBase EXCEPT !.keyword = VNone]),
     MakeTrend([GoogleBase EXCEPT !.keyword = VStr(S_blank)]),
     MakeTrend([GoogleBase EXCEPT !.rank = VStr(<<"x">>)]),
     VDict(Update(GoogleBase, [sentiment_score |-> VStr(S_abc)])),
     MakeTrend(TwitterBase),
     VDict(Update(TwitterBase, [sentiment_breakdown |-> VDict([excited |-> VStr(S_abc)])])),
     VNone,
     VStr(S_abc)}

RECURSIVE SeqsUpTo(_, _)
SeqsUpTo(S, n) ==
    IF n = 0 THEN {<<>>}
    ELSE LET shorter == SeqsUpTo(S, n - 1)
         IN  shorter \cup {Append(q, x) : q \in {z \in shorter : Len(z) = n - 1}, x \in S}

Batches == {VNone} \cup {VList(l) : l \in SeqsUpTo(BatchPool, MaxBatch)}

\* the records validate_trend_schema is called on: every combination of
\* these values of the required fields, with one set of optional fields
RegionChoices ==
    {VStr(S_USA), VStr(S_India), VStr(S_Canada), VStr(<<"u", "s", "a">>), VNone, Absent}
RankChoices == {VInt(1), VStr(<<"2">>), VStr(<<"x">>), VStr(S_blank), Absent}
KeywordChoices == {VStr(S_ai), VStr(<<" ", "x", " ">>), VStr(S_blank), VInt(7), VNone, Absent}
SearchVolumeChoices == {VStr(S_5K), VInt(42), Absent}
MentionVolumeChoices == {VStr(<<"1", ".", "5", "M">>), Absent}
CategoryChoices == {VStr(S_Tech), VStr(<<>>)}
OptionalChoices ==
    {EmptyDict,
     [sentiment_score |-> VStr(S_abc)],
     [sentiment_score |-> VStr(<<"7", "2">>), public_sentiment |-> VStr(<<"H", "y", "p", "e">>)],
     [sentiment_breakdown |-> VDict([excited |-> VStr(S_abc)])],
     [sentiment_breakdown |-> VDict([excited |-> VInt(40), curious |-> VStr(<<"6", "0">>)]),
      primary_sentiment |-> VStr(<<"M", "i", "x", "e", "d">>)],
     [primary_sentiment |-> VStr(<<"A", "n", "g", "r", "y">>), sentiment_breakdown |-> VNone],
     [related_searches |-> VStr(<<"a", ",", " ", "b", ",", ",">>),
      related_hashtags |-> VList(<<VStr(<<"#", "a">>)>>), context |-> VNone]}

SchemaTrends ==
    {VDict(Update(MakeTrend([region |-> rg, rank |-> rk, keyword |-> kw, search_volume |-> sv,
                             mention_volume |-> mv, category |-> cat,
                             velocity |-> VStr(S_RisingFast)]).d, opt)) :
        rg \in RegionChoices, rk \in RankChoices, kw \in KeywordChoices,
        sv \in SearchVolumeChoices, mv \in MentionVolumeChoices, cat \in CategoryChoices,
        opt \in OptionalChoices}
    \cup {VNone, VStr(S_abc), VList(<<>>), VList(<<VStr(S_keyword)>>)}

\* records whose required fields are valid for both platforms, with these
\* values of the fields lines 68-138 coerce or default
S_rising_fast == <<"r", "i", "s", "i", "n", "g", "_", "f", "a", "s", "t">>
S_HyphenFast == <<"r", "i", "s", "i", "n", "g", "-", "f", "a", "s", "t">>
S_RISING_FAST == <<"R", "I", "S", "I", "N", "G", "_", "F", "A", "S", "T">>
S_Positive == <<"P", "o", "s", "i", "t", "i", "v", "e">>
S_NEUTRAL == <<"N", "E", "U", "T", "R", "A", "L">>
S_Mixed == <<"M", "i", "x", "e", "d">>
S_Angry == <<"A", "n", "g", "r", "y">>
S_ab_list == <<"a", ",", " ", "b", ",", ",">>

FieldsBase ==
    [region |-> VStr(S_USA), rank |-> VInt(1), keyword |-> VStr(S_ai),
     search_volume |-> VStr(S_5K), mention_volume |-> VStr(<<"1", ".", "5", "M">>),
     category |-> VStr(S_Tech), velocity |-> VStr(S_RisingFast)]
VelocityChoices ==
    {VStr(S_RisingFast), VStr(S_HyphenFast), VStr(S_RISING_FAST), VStr(S_rising_fast),
     VStr(<<"U", "p", " ", "-", " ", "1">>), VInt(3)}
PrimaryChoices ==
    {VStr(S_Positive), VStr(S_negative), VStr(S_NEUTRAL), VStr(S_Mixed), VStr(S_excited),
     VStr(<<"C", "o", "n", "c", "e", "r", "n", "e", "d">>), VStr(S_celebrating),
     VStr(S_controversial), VStr(S_curious), VStr(S_Angry), VNone, Absent}
BreakdownChoices ==
    {Absent, VNone, VDict(EmptyDict), VStr(S_abc), VList(<<VInt(100)>>),
     VDict([excited |-> VInt(40), curious |-> VStr(<<"6", "0">>)]),
     VDict([excited |-> VInt(50), concerned |-> VInt(10), curious |-> VInt(20),
            celebrating |-> VInt(15), controversial |-> VInt(5)]),
     VDict([excited |-> VStr(S_abc)])}
RelatedChoices ==
    {Absent, VNone, VInt(5), VStr(<<>>), VStr(<<" ", ",", " ">>), VStr(S_ab_list),
     VList(<<>>), VList(<<VStr(<<"#", "a">>), VStr(<<" ", "b", " ">>), VStr(<<>>)>>)}
TextChoices == {Absent, VNone, VStr(<<>>), VStr(<<"x">>), VInt(0)}

FieldsTrends ==
    {MakeTrend(Update(FieldsBase, [velocity |-> v, primary_sentiment |-> ps,
                                   sentiment_breakdown |-> bd])) :
        v \in VelocityChoices, ps \in PrimaryChoices, bd \in BreakdownChoices}
    \cup {MakeTrend(Update(FieldsBase, [related_searches |-> rs, related_hashtags |-> rs,
                                        context |-> cx, why_trending |-> wt])) :
             rs \in RelatedChoices, cx \in TextChoices, wt \in TextChoices}

NoResult == Raise("")

(***************************************************************************)
(* save_deepdive_to_db and update_deepdive_status                          *)
(* (src/database_deepdive.py; src/db_operations.py holds the same code)    *)
(***************************************************************************)
\* datetime.now(timezone.utc).isoformat(), the n-th timestamp handed out
Timestamp(n) == [t |-> "time", n |-> n]

\* what an operation returns: success and, for a save, the id of the new row
Reply(success, record_id) == [success |-> success, record_id |-> record_id]
NoReply == Reply(FALSE, VNone)

\* lines 39-43: the status and timestamp columns of the row to insert, with the
\* id the table gives it
NewRecord(id, status, timestamp) ==
    [id |-> id, created_at |-> timestamp, updated_at |-> timestamp, status |-> status,
     finalized_at |-> IF status = "finalized" THEN timestamp ELSE VNone]

\* mutant of UpdateData: every status change writes finalized_at, null unless
\* the new status is 'finalized'
UpdateData_ClearsStamp(new_status, timestamp) ==
    [status |-> new_status, updated_at |-> timestamp,
     finalized_at |-> IF new_status = "finalized" THEN timestamp ELSE VNone]

\* lines 161-168: the columns update_deepdive_status writes
UpdateData(new_status, timestamp) ==
    IF new_status = "finalized"
    THEN [status |-> new_status, updated_at |-> timestamp, finalized_at |-> timestamp]
    ELSE [status |-> new_status, updated_at |-> timestamp]

\* lines 170-173: .update(update_data).eq('id', deepdive_id) on the rows
UpdateRows(rows, update_data, deepdive_id) ==
    [i \in DOMAIN rows |->
        IF rows[i].id = deepdive_id THEN Update(rows[i], update_data) ELSE rows[i]]

(***************************************************************************)
(* validate_and_normalize_trends as a state machine                        *)
(***************************************************************************)
Init ==
    /\ trends \in Batches
    /\ platform \in Platforms
    /\ valid = <<>>
    /\ report = NewReport(0)
    /\ idx = 0
    /\ pc = "call"
    /\ raised = ""
    /\ trend = VNone
    /\ result = NoResult
    /\ volume_str = VNone
    /\ volume = VolumeOf(0)
    /\ text = VNone
    /\ candidate = <<>>
    /\ parsed = NoParse
    /\ table = <<>>
    /\ clock = 0
    /\ reply = NoReply

\* lines 144-145; len(None) raises TypeError
Start ==
    /\ pc = "call"
    /\ IF trends.t = "list"
       THEN /\ valid' = <<>>
            /\ report' = NewReport(Len(trends.l))
            /\ pc' = "loop"
            /\ raised' = ""
       ELSE /\ pc' = "raised"
            /\ raised' = "TypeError"
            /\ UNCHANGED <<valid, report>>
    /\ UNCHANGED <<trends, platform, idx, trend, result, volume_str, volume, text, candidate, parsed, table, clock, reply>>

\* the locals and the batch after a pass of the loop body
Advance(body) ==
    /\ valid' = body.out.valid
    /\ report' = body.out.report
    /\ raised' = body.out.exc
    /\ pc' = IF body.out.exc = "" THEN "loop" ELSE "raised"
    /\ trends' = [trends EXCEPT !.l[idx + 1] = body.trend]

\* lines 147-167: one iteration of the for loop
Iterate ==
    /\ pc = "loop"
    /\ idx < Len(trends.l)
    /\ Advance(ProcessRecord(trends.l[idx + 1], platform, idx, valid, report))
    /\ idx' = idx + 1
    /\ UNCHANGED <<platform, trend, result, volume_str, volume, text, candidate, parsed, table, clock, reply>>

\* line 169
Finish ==
    /\ pc = "loop"
    /\ idx = Len(trends.l)
    /\ pc' = "returned"
    /\ UNCHANGED <<trends, platform, valid, report, idx, raised, trend, result, volume_str, volume, text, candidate, parsed, table, clock, reply>>

Next == Start \/ Iterate \/ Finish

Spec == Init /\ [][Next]_vars

(***************************************************************************)
(* validate_trend_schema called on its own                                 *)
(***************************************************************************)
InitSchema ==
    /\ trend \in SchemaTrends
    /\ platform \in Platforms
    /\ result = NoResult
    /\ pc = "schema_call"
    /\ trends = VNone
    /\ valid = <<>>
    /\ report = NewReport(0)
    /\ idx = 0
    /\ raised = ""
    /\ volume_str = VNone
    /\ volume = VolumeOf(0)
    /\ text = VNone
    /\ candidate = <<>>
    /\ parsed = NoParse
    /\ table = <<>>
    /\ clock = 0
    /\ reply = NoReply

\* what the call leaves: its outcome, and its argument
SchemaReturn(r) ==
    /\ result' = r
    /\ trend' = TrendAfter(trend, r)

\* lines 36-140
CallSchema ==
    /\ pc = "schema_call"
    /\ SchemaReturn(validate_trend_schema(trend, platform))
    /\ pc' = "schema_done"
    /\ UNCHANGED <<trends, platform, valid, report, idx, raised, volume_str, volume, text, candidate, parsed, table, clock, reply>>

NextSchema == CallSchema

SpecSchema == InitSchema /\ [][NextSchema]_vars

\* validate_trend_schema called on records that pass the required-field checks
InitFields ==
    /\ trend \in FieldsTrends
    /\ platform \in DOMAIN required
    /\ result = NoResult
    /\ pc = "schema_call"
    /\ trends = VNone
    /\ valid = <<>>
    /\ report = NewReport(0)
    /\ idx = 0
    /\ raised = ""
    /\ volume_str = VNone
    /\ volume = VolumeOf(0)
    /\ text = VNone
    /\ candidate = <<>>
    /\ parsed = NoParse
    /\ table = <<>>
    /\ clock = 0
    /\ reply = NoReply

SpecFields == InitFields /\ [][NextSchema]_vars

(***************************************************************************)
(* normalize_volume called on its own                                      *)
(***************************************************************************)
MaxVolumeLen == 3

\* digits, the dot, suffix letters in both cases, and characters line 19 strips
VolumeChars == {"1", "5", ".", "K", "M", "k", "-", " ", "x"}
VolumeStrings == UNION {[1..n -> VolumeChars] : n \in 0..MaxVolumeLen}
VolumeExamples ==
    {<<"1", ".", "5", "M">>, <<"2", "5", "0", "K">>, <<"5", "K", "3">>,
     <<"g", "a", "r", "b", "a", "g", "e">>, <<"1", "B">>, <<"2", "b">>,
     <<"1", ".", "2", ".", "3">>, <<"1", "K", "2", "M">>, <<"$", "1", ",", "2", "0", "0">>}
VolumeInputs ==
    {VNone} \cup {VInt(n) : n \in {0, 42, -5, 1200000}}
            \cup {VStr(s) : s \in VolumeStrings \cup VolumeExamples}

InitVolume ==
    /\ volume_str \in VolumeInputs
    /\ volume = VolumeOf(0)
    /\ text = VNone
    /\ candidate = <<>>
    /\ parsed = NoParse
    /\ table = <<>>
    /\ clock = 0
    /\ reply = NoReply
    /\ pc = "volume_call"
    /\ trends = VNone
    /\ platform = "google"
    /\ valid = <<>>
    /\ report = NewReport(0)
    /\ idx = 0
    /\ raised = ""
    /\ trend = VNone
    /\ result = NoResult

\* lines 13-34
CallVolume ==
    /\ pc = "volume_call"
    /\ volume' = normalize_volume(volume_str)
    /\ pc' = "volume_done"
    /\ UNCHANGED <<trends, platform, valid, report, idx, raised, trend, result, volume_str, text, candidate, parsed, table, clock, reply>>

NextVolume == CallVolume

SpecVolume == InitVolume /\ [][NextVolume]_vars

(***************************************************************************)
(* parse_json_input called on its own                                      *)
(***************************************************************************)
MaxParts == 5

\* the pieces a text is put together from: the two fence markers, an object,
\* an array, prose, a lone closing brace and an object cut after a comma
TextParts ==
    {S_json_fence, S_fence,
     <<"{", "\"", "a", "\"", ":", "1", "}">>,
     <<"[", "2", "]">>,
     <<" ", "h", "i", " ">>,
     <<"}">>,
     <<"{", "\"", "a", "\"", ":", "1", ",">>}
RECURSIVE Joined(_)
Joined(parts) == IF parts = <<>> THEN <<>> ELSE Head(parts) \o Joined(Tail(parts))
Texts == {Joined(parts) : parts \in UNION {[1..n -> TextParts] : n \in 0..MaxParts}}
TextInputs == {VStr(s) : s \in Texts} \cup {VNone, VInt(0), VInt(5), VList(<<>>)}

InitParse ==
    /\ text \in TextInputs
    /\ candidate = <<>>
    /\ parsed = NoParse
    /\ table = <<>>
    /\ clock = 0
    /\ reply = NoReply
    /\ pc = "parse_call"
    /\ trends = VNone
    /\ platform = "google"
    /\ valid = <<>>
    /\ report = NewReport(0)
    /\ idx = 0
    /\ raised = ""
    /\ trend = VNone
    /\ result = NoResult
    /\ volume_str = VNone
    /\ volume = VolumeOf(0)

\* lines 175-204
CallParse ==
    /\ pc = "parse_call"
    /\ parsed' = parse_json_input(text)
    /\ candidate' = IF text.t = "str" /\ Truthy(text)
                    THEN Strip(FenceCandidate(Strip(text.s))) ELSE <<>>
    /\ pc' = "parse_done"
    /\ UNCHANGED <<trends, platform, valid, report, idx, raised, trend, result, volume_str,
                   volume, text, table, clock, reply>>

NextParse == CallParse

SpecParse == InitParse /\ [][NextParse]_vars

(***************************************************************************)
(* the deep_dive_research table under save_deepdive_to_db and              *)
(* update_deepdive_status                                                  *)
(***************************************************************************)
MaxRows == 3
MaxClock == 5
Statuses == {"needs_finetuning", "finalized", "published"}

InitDeepdive ==
    /\ trends = VNone
    /\ platform = "google"
    /\ valid = <<>>
    /\ report = NewReport(0)
    /\ idx = 0
    /\ pc = "table"
    /\ raised = ""
    /\ trend = VNone
    /\ result = NoResult
    /\ volume_str = VNone
    /\ volume = VolumeOf(0)
    /\ text = VNone
    /\ candidate = <<>>
    /\ parsed = NoParse
    /\ table = <<>>
    /\ clock = 0
    /\ reply = NoReply

\* save_deepdive_to_db, lines 9-88; `fails` is execute() raising, which the
\* except clause turns into (False, message, None)
save_deepdive_to_db(status, fails) ==
    /\ pc = "table"
    /\ clock < MaxClock
    /\ Len(table) < MaxRows
    /\ clock' = clock + 1
    /\ IF fails
       THEN /\ reply' = Reply(FALSE, VNone)
            /\ UNCHANGED table
       ELSE /\ table' = Append(table, NewRecord(Len(table) + 1, status, Timestamp(clock + 1)))
            /\ reply' = Reply(TRUE, VInt(Len(table) + 1))
    /\ UNCHANGED <<trends, platform, valid, report, idx, pc, raised, trend, result, volume_str,
                   volume, text, candidate, parsed>>

\* update_deepdive_status, lines 146-181; no row with the id gives empty
\* result.data and (False, message)
update_deepdive_status(deepdive_id, new_status, fails) ==
    /\ pc = "table"
    /\ clock < MaxClock
    /\ clock' = clock + 1
    /\ IF fails
       THEN /\ reply' = Reply(FALSE, VNone)
            /\ UNCHANGED table
       ELSE /\ table' = UpdateRows(table, UpdateData(new_status, Timestamp(clock + 1)), deepdive_id)
            /\ reply' = Reply(\E i \in DOMAIN table : table[i].id = deepdive_id, VNone)
    /\ UNCHANGED <<trends, platform, valid, report, idx, pc, raised, trend, result, volume_str,
                   volume, text, candidate, parsed>>

SaveDeepdive == \E status \in Statuses, fails \in BOOLEAN : save_deepdive_to_db(status, fails)

UpdateStatus ==
    \E deepdive_id \in 1..MaxRows, new_status \in Statuses, fails \in BOOLEAN :
        update_deepdive_status(deepdive_id, new_status, fails)

NextDeepdive == SaveDeepdive \/ UpdateStatus

SpecDeepdive == InitDeepdive /\ [][NextDeepdive]_vars

(***************************************************************************)
(* Properties                                                              *)
(***************************************************************************)
\* the loop is running or the function has returned: the locals are defined
InLoop == pc \in {"loop", "returned"}
\* the indices the loop has consumed, and the input record at an index
Processed == 0..(idx - 1)
RecordAt(i) == trends.l[i + 1]
ErrorIndices == {report.errors[k].index : k \in DOMAIN report.errors}
\* the indices of Processed that satisfy Keep, ascending
IndicesWhere(Keep(_)) == SelectSeq([k \in 1..idx |-> k - 1], Keep)
\* absent, null, or a string of nothing but whitespace
BlankValue(d, f) ==
    \/ f \notin DOMAIN d
    \/ d[f] = VNone
    \/ d[f].t = "str" /\ \A k \in DOMAIN d[f].s : d[f].s[k] \in Whitespace

\* C1: for every batch that is a list the function returns and never aborts:
\* no exception leaves it, and every record whose validation raised has an
\* error-ledger entry with its index while the later records are still processed.
C1_BatchNeverAborts ==
    trends.t = "list" =>
        /\ pc # "raised"
        /\ InLoop =>
            \A i \in Processed :
                validate_trend_schema(RecordAt(i), platform).exc # "" => i \in ErrorIndices

\* C2: report.total is the number of input records; after each processed record
\* valid + invalid is the number of records processed so far, the ledger has
\* `invalid` entries and the valid list `valid` entries; on return
\* valid + invalid = total.
C2_ReportCounts ==
    InLoop =>
        /\ report.total = Len(trends.l)
        /\ report.valid + report.invalid = idx
        /\ Len(report.errors) = report.invalid
        /\ Len(valid) = report.valid
        /\ pc = "returned" => report.valid + report.invalid = report.total

C2_Witness ==
    /\ pc = "returned"
    /\ report.total = 3
    /\ report.valid = 1
    /\ report.invalid = 2

\* C3: every processed index is in exactly one place: the ledger holds exactly
\* one entry for it, or its normalized record is in the valid list (at the place
\* its rank among the indices without an entry gives it); the record of an index
\* in the ledger is not in the valid list.
C3_ExactlyOnePlace ==
    InLoop =>
        LET free == IndicesWhere(LAMBDA i : i \notin ErrorIndices)
        IN  /\ ErrorIndices \subseteq Processed
            /\ Cardinality(ErrorIndices) = Len(report.errors)
            /\ Len(valid) = Len(free)
            /\ \A k \in DOMAIN free :
                   valid[k] = validate_trend_schema(RecordAt(free[k]), platform).normalized
            /\ \A i \in ErrorIndices :
                   \A k \in DOMAIN valid :
                       valid[k] # validate_trend_schema(RecordAt(i), platform).normalized

C3_Witness ==
    /\ pc = "returned"
    /\ idx = 3
    /\ ErrorIndices = {0, 2}
    /\ Len(valid) = 1
    /\ validate_trend_schema(RecordAt(0), platform).normalized # VNone

\* C4: the valid list keeps the input order (it is the normalized forms of the
\* accepted records, in input order) and the indices of the ledger are strictly
\* increasing.
C4_OrderPreserved ==
    InLoop =>
        LET accepted == IndicesWhere(LAMBDA i : validate_trend_schema(RecordAt(i), platform).ok)
        IN  /\ valid = [k \in DOMAIN accepted |->
                           validate_trend_schema(RecordAt(accepted[k]), platform).normalized]
            /\ \A k, l \in DOMAIN report.errors :
                   k < l => report.errors[k].index < report.errors[l].index

C4_Witness ==
    /\ pc = "returned"
    /\ Len(valid) = 2
    /\ valid[1] # valid[2]
    /\ Len(report.errors) = 1
    /\ report.errors[1].index = 1

\* C5: a record whose keyword is missing, null or blank is rejected for either
\* platform tag, and the ledger has an entry whose index is the record's position.
C5_MissingKeywordRejected ==
    InLoop =>
        LET nokey == {i \in Processed :
                         RecordAt(i).t = "dict" /\ BlankValue(RecordAt(i).d, "keyword")}
        IN  /\ nokey \subseteq ErrorIndices
            /\ Len(valid) <= idx - Cardinality(nokey)

C5_Witness ==
    /\ pc = "returned"
    /\ platform = "twitter"
    /\ idx = 3
    /\ \A i \in Processed : RecordAt(i).t = "dict"
    /\ "keyword" \notin DOMAIN RecordAt(0).d
    /\ Get(RecordAt(1).d, "keyword", VStr(S_ai)) = VNone
    /\ Get(RecordAt(2).d, "keyword", VStr(S_ai)) = VStr(S_blank)
    /\ ErrorIndices = {0, 1, 2}

\* the record is a dict whose required fields are all present and not blank;
\* with Regions given, its region is one of them and its rank an integer
RequiredPresent(rec, plat) ==
    /\ rec.t = "dict"
    /\ \A f \in Range(required[plat]) : ~BlankValue(rec.d, f)
RequiredValid(rec, plat) ==
    /\ RequiredPresent(rec, plat)
    /\ rec.d["region"] \in {VStr(S_USA), VStr(S_India)}
    /\ PyInt(rec.d["rank"]).exc = ""
\* the record would be accepted as a search record if its region were "USA"
OtherwiseValidSearch(rec) ==
    /\ RequiredPresent(rec, "google")
    /\ validate_trend_schema(VDict([rec.d EXCEPT !["region"] = VStr(S_USA)]), "google").ok

\* C6: in a returned batch of otherwise valid search records, exactly the
\* records whose region is outside {"USA", "India"} are excluded, each with a
\* ledger entry at its position, and the others are returned in their original
\* order; with three records and the bad region at position 1 the report is
\* total=3, valid=2, invalid=1 and errors[0].index is 1.
C6_InvalidRegionExcluded ==
    (/\ pc = "returned"
     /\ platform = "google"
     /\ \A i \in Processed : OtherwiseValidSearch(RecordAt(i))) =>
        LET bad == {i \in Processed : RecordAt(i).d["region"] \notin {VStr(S_USA), VStr(S_India)}}
            good == IndicesWhere(LAMBDA i : i \notin bad)
        IN  /\ ErrorIndices = bad
            /\ valid = [k \in DOMAIN good |->
                           validate_trend_schema(RecordAt(good[k]), platform).normalized]
            /\ \A k \in DOMAIN valid : valid[k].d["region"] \in {VStr(S_USA), VStr(S_India)}
            /\ report.total = idx
            /\ report.valid = idx - Cardinality(bad)
            /\ report.invalid = Cardinality(bad)
            /\ (idx = 3 /\ bad = {1}) =>
                   /\ report.total = 3 /\ report.valid = 2 /\ report.invalid = 1
                   /\ report.errors[1].index = 1

C6_Witness ==
    /\ pc = "returned"
    /\ platform = "google"
    /\ trends = VList(<<MakeTrend(GoogleBase),
                        MakeTrend([GoogleBase EXCEPT !.region = VStr(S_Canada)]),
                        MakeTrend(GoogleIndia)>>)
    /\ Len(valid) = 2
    /\ valid[1].d["region"] = VStr(S_USA)
    /\ valid[2].d["region"] = VStr(S_India)
    /\ report.errors[1].index = 1

\* C7: a call with a programming error, a null batch or a platform tag that is
\* not one of the two supported tags, raises: it never returns a report.
C7_ProgrammingErrorsRaise ==
    (trends = VNone \/ platform \notin DOMAIN required) => pc # "returned"

\* C8: a record whose required fields are all present and valid is accepted,
\* whatever its other fields hold: it is not in the ledger.
C8_OptionalFieldsDegrade ==
    (InLoop /\ platform \in DOMAIN required) =>
        \A i \in Processed : RequiredValid(RecordAt(i), platform) => i \notin ErrorIndices

\* C9: validate_trend_schema, given a dict in which some field required for
\* the platform is absent, null or blank, returns ok = false, normalized = null
\* and exactly one "Missing or empty" message per such field, nothing else:
\* no coercion has run.
C9_MissingFieldsFail ==
    (pc = "schema_done" /\ trend.t = "dict" /\ platform \in DOMAIN required) =>
        LET missing == {f \in Range(required[platform]) : BlankValue(trend.d, f)}
        IN  missing # {} =>
                /\ result.exc = ""
                /\ ~result.ok
                /\ result.normalized = VNone
                /\ Len(result.errors) = Cardinality(missing)
                /\ \A k \in DOMAIN result.errors : result.errors[k].kind = "Missing or empty"
                /\ {result.errors[k].field : k \in DOMAIN result.errors} = missing

C9_Witness ==
    /\ pc = "schema_done"
    /\ platform = "google"
    /\ trend.t = "dict"
    /\ {f \in Range(required[platform]) : BlankValue(trend.d, f)} = {"region", "keyword", "category"}
    /\ Get(trend.d, "sentiment_score", VNone) = VStr(S_abc)
    /\ Get(trend.d, "rank", VNone) = VStr(<<"x">>)
    /\ Len(result.errors) = 3
    /\ result.normalized = VNone

\* C10: every return of validate_trend_schema is (true, [], normalizedRecord)
\* or (false, errors, null) with a non-empty error list, also when the failure
\* is an invalid region or an uncoercible rank.
C10_TwoShapes ==
    (pc = "schema_done" /\ result.exc = "") =>
        \/ result.ok /\ result.errors = <<>> /\ result.normalized # VNone
        \/ ~result.ok /\ result.errors # <<>> /\ result.normalized = VNone

\* the kinds of the messages validate_trend_schema returned
ErrorKinds == {result.errors[k].kind : k \in DOMAIN result.errors}

\* C11: validate_trend_schema, given a dict whose required fields are all
\* present, accumulates the region and the rank errors: with a region other than
\* exactly "USA" or "India" and a rank that int() refuses it returns an error
\* list holding both messages, and with such a rank alone it returns ok = false.
C11_RegionRankAccumulated ==
    (pc = "schema_done" /\ platform \in DOMAIN required /\ RequiredPresent(trend, platform)) =>
        LET badRegion == trend.d["region"] \notin {VStr(S_USA), VStr(S_India)}
            badRank == PyInt(trend.d["rank"]).exc # ""
        IN  /\ badRank => result.exc = "" /\ ~result.ok
            /\ (badRegion /\ badRank) =>
                   /\ result.exc = ""
                   /\ {"Invalid region", "Invalid rank"} \subseteq ErrorKinds

\* the volume field validate_trend_schema writes for the platform
VolumeField == IF platform = "google" THEN "search_volume" ELSE "mention_volume"

\* C12: every record of the valid list is a dict whose rank is an integer,
\* whose volume field for the platform is an integer >= 0, whose region is
\* exactly "USA" or "India" and whose velocity is a string with no upper-case
\* letter, space or hyphen.
C12_ValidRecordTypes ==
    InLoop =>
        \A k \in DOMAIN valid :
            /\ valid[k].t = "dict"
            /\ {"rank", "region", "velocity", VolumeField} \subseteq DOMAIN valid[k].d
            /\ valid[k].d["rank"].t = "int"
            /\ valid[k].d[VolumeField].t = "int"
            /\ valid[k].d[VolumeField].n >= 0
            /\ valid[k].d["region"] \in {VStr(S_USA), VStr(S_India)}
            /\ valid[k].d["velocity"].t = "str"
            /\ \A c \in Range(valid[k].d["velocity"].s) : c \notin Range(UpperLetters) \cup {" ", "-"}

C12_Witness ==
    /\ pc = "returned"
    /\ platform = "google"
    /\ idx = 3
    /\ Len(valid) = 1
    /\ \A i \in Processed : RecordAt(i).t = "dict" /\ RequiredPresent(RecordAt(i), platform)
    /\ \E i \in Processed :
           /\ i \notin ErrorIndices
           /\ RecordAt(i).d["rank"].t = "str"
           /\ RecordAt(i).d["search_volume"] = VInt(-5)
           /\ " " \in Range(RecordAt(i).d["velocity"].s)
    /\ \E i \in Processed : RecordAt(i).d["region"] = VStr(S_Canada)
    /\ \E i \in Processed : RecordAt(i).d["rank"] = VStr(<<"x">>)

\* the reference reading of a volume string: what is left of it once every
\* character but digits, '.', and k/m/b in either case is dropped, the longest
\* numeric prefix of that, and the multiplier of a suffix letter
SuffixLetters == {"K", "M", "B", "k", "m", "b"}
KeptChars(s) == SelectSeq(s, LAMBDA c : IsDigit(c) \/ c = "." \/ c \in SuffixLetters)
RECURSIVE LeadingNumeric(_)
LeadingNumeric(s) ==
    IF s = <<>> \/ ~(IsDigit(s[1]) \/ s[1] = ".") THEN <<>>
    ELSE <<s[1]>> \o LeadingNumeric(Tail(s))
SuffixMultiplier(c) ==
    CASE c \in {"K", "k"} -> 1000
      [] c \in {"M", "m"} -> 1000000
      [] c \in {"B", "b"} -> 1000000000

\* C13: normalize_volume returns the leading numeric portion of the stripped
\* input times the multiplier of the suffix letter that follows it (1 without a
\* suffix), truncated: "1.5M" gives 1500000, "250K" gives 250000, 42 gives 42,
\* and digits that follow the suffix letter do not count.
C13_VolumeReference ==
    pc = "volume_done" =>
        /\ volume_str = VStr(<<"1", ".", "5", "M">>) => volume = VolumeOf(1500000)
        /\ volume_str = VStr(<<"2", "5", "0", "K">>) => volume = VolumeOf(250000)
        /\ volume_str = VInt(42) => volume = VolumeOf(42)
        /\ volume_str.t = "str" =>
               LET s == KeptChars(volume_str.s)
                   lead == LeadingNumeric(s)
                   rest == SubSeq(s, Len(lead) + 1, Len(s))
                   f == PyFloat(lead)
                   mult == IF rest = <<>> THEN 1 ELSE SuffixMultiplier(rest[1])
               IN  (/\ f.exc = ""
                    /\ rest # <<>> => /\ rest[1] \in SuffixLetters
                                      /\ \A k \in 2..Len(rest) : IsDigit(rest[k]))
                       => volume = VolumeOf((f.m * mult) \div Pow10(f.scale))

\* C14: normalize_volume never raises and returns an integer >= 0, also for a
\* negative number; it returns 0 for a missing or empty input and for an input
\* that, once stripped, has no digit, several dots, or more than one suffix
\* letter.
C14_VolumeNeverRaises ==
    pc = "volume_done" =>
        /\ volume.exc = ""
        /\ volume.n \in Nat
        /\ volume_str \in {VNone, VStr(<<>>)} => volume.n = 0
        /\ volume_str.t = "str" =>
               LET s == KeptChars(volume_str.s)
               IN  (\/ \A k \in DOMAIN s : ~IsDigit(s[k])
                    \/ Cardinality({k \in DOMAIN s : s[k] = "."}) > 1
                    \/ Cardinality({k \in DOMAIN s : s[k] \in SuffixLetters}) > 1)
                       => volume.n = 0

\* validate_trend_schema returned a normalized record
Normalized == pc = "schema_done" /\ result.exc = "" /\ result.normalized # VNone
\* a field of the normalized record
Out(f) == result.normalized.d[f]
\* lower-cased, every space and hyphen an underscore
SnakeCased(s) == [i \in 1..Len(s) |-> IF s[i] \in {" ", "-"} THEN "_" ELSE LowerChar(s[i])]

\* C15: the normalized velocity is the raw one lower-cased with every space and
\* hyphen turned into an underscore, the same for either platform; "Rising
\* Fast", "rising-fast" and "RISING_FAST" all give "rising_fast"; normalizing
\* the normalized velocity again leaves it unchanged.
C15_VelocityNormalized ==
    Normalized =>
        /\ Out("velocity").t = "str"
        /\ trend.d["velocity"].t = "str" =>
               Out("velocity").s = SnakeCased(trend.d["velocity"].s)
        /\ trend.d["velocity"] \in {VStr(S_RisingFast), VStr(S_HyphenFast), VStr(S_RISING_FAST)} =>
               Out("velocity") = VStr(S_rising_fast)
        /\ \A p \in DOMAIN required :
               LET other == validate_trend_schema(trend, p)
               IN  other.normalized # VNone => other.normalized.d["velocity"] = Out("velocity")
        /\ NormalizeVelocity(Out("velocity")) = Out("velocity").s

C15_Witness ==
    /\ Normalized
    /\ platform = "twitter"
    /\ trend.d["velocity"] = VStr(S_HyphenFast)
    /\ Out("velocity") = VStr(S_rising_fast)
    /\ validate_trend_schema(trend, "google").normalized.d["velocity"] = VStr(S_rising_fast)

\* the raw record carries no usable sentiment_breakdown: absent, empty, or not a dict
NoBreakdown ==
    LET bd == Get(trend.d, "sentiment_breakdown", VDict(EmptyDict))
    IN  bd.t # "dict" \/ bd = VDict(EmptyDict)
\* the raw primary_sentiment, lower-cased ("curious" when the key is absent)
RawPrimary == Lower(PyStr(Get(trend.d, "primary_sentiment", VStr(S_curious))))
\* the five individual sentiment fields, as a record of integers
Five ==
    [excited |-> Out("sentiment_excited").n, concerned |-> Out("sentiment_concerned").n,
     curious |-> Out("sentiment_curious").n, celebrating |-> Out("sentiment_celebrating").n,
     controversial |-> Out("sentiment_controversial").n]
FiveSum == Five.excited + Five.concerned + Five.curious + Five.celebrating + Five.controversial

\* C16: for a mention record without a usable sentiment_breakdown the call
\* returns a record whose five sentiment fields sum to exactly 100, whatever
\* primary_sentiment is; a primary_sentiment that is none of the known values
\* gives curious 60, excited 20, concerned 20 and 0 for the other two.
C16_DefaultBreakdownSums ==
    (pc = "schema_done" /\ platform = "twitter" /\ NoBreakdown) =>
        /\ Normalized
        /\ FiveSum = 100
        /\ RawPrimary \notin {S_positive, S_negative, S_neutral, S_mixed, S_excited,
                              S_concerned, S_celebrating, S_controversial} =>
               Five = [excited |-> 20, concerned |-> 20, curious |-> 60,
                       celebrating |-> 0, controversial |-> 0]

C16_Witness ==
    /\ Normalized
    /\ platform = "twitter"
    /\ Get(trend.d, "sentiment_breakdown", VNone) = VStr(S_abc)
    /\ Get(trend.d, "primary_sentiment", VNone) = VStr(S_Angry)
    /\ Five.curious = 60
    /\ FiveSum = 100

\* the bucket that leads the generated breakdown, and its share
Dominant ==
    CASE Out("primary_sentiment").s = S_excited -> <<"excited", 70>>
      [] Out("primary_sentiment").s = S_concerned -> <<"concerned", 70>>
      [] Out("primary_sentiment").s = S_celebrating -> <<"celebrating", 70>>
      [] Out("primary_sentiment").s = S_controversial -> <<"controversial", 60>>
      [] OTHER -> <<"curious", 60>>

\* C17: in a normalized mention record primary_sentiment is the raw value
\* lower-cased, with positive, negative, neutral and mixed replaced by excited,
\* concerned, curious and controversial and any other value left as it is; a
\* generated breakdown is the table of that translated value, so raw "Positive"
\* gets the excited-dominant table.
C17_PrimarySentimentTranslated ==
    (Normalized /\ platform = "twitter") =>
        /\ RawPrimary = S_positive => Out("primary_sentiment") = VStr(S_excited)
        /\ RawPrimary = S_negative => Out("primary_sentiment") = VStr(S_concerned)
        /\ RawPrimary = S_neutral => Out("primary_sentiment") = VStr(S_curious)
        /\ RawPrimary = S_mixed => Out("primary_sentiment") = VStr(S_controversial)
        /\ RawPrimary \notin {S_positive, S_negative, S_neutral, S_mixed} =>
               Out("primary_sentiment") = VStr(RawPrimary)
        /\ NoBreakdown =>
               /\ Five[Dominant[1]] = Dominant[2]
               /\ \A b \in DOMAIN Five : Five[b] <= Dominant[2]
        /\ (NoBreakdown /\ Get(trend.d, "primary_sentiment", VNone) = VStr(S_Positive)) =>
               Five = [excited |-> 70, concerned |-> 0, curious |-> 20,
                       celebrating |-> 10, controversial |-> 0]

C17_Witness ==
    /\ Normalized
    /\ platform = "twitter"
    /\ NoBreakdown
    /\ Get(trend.d, "primary_sentiment", VNone) = VStr(S_Mixed)
    /\ Out("primary_sentiment") = VStr(S_controversial)
    /\ Five.controversial = 60

\* C18: in a normalized mention record sentiment_positive is excited +
\* celebrating, sentiment_neutral is curious and sentiment_negative is
\* concerned + controversial, so the three add up to what the five individual
\* fields add up to, which is 100 when the breakdown was generated.
C18_AggregateBuckets ==
    (Normalized /\ platform = "twitter") =>
        /\ Out("sentiment_positive") = VInt(Five.excited + Five.celebrating)
        /\ Out("sentiment_neutral") = VInt(Five.curious)
        /\ Out("sentiment_negative") = VInt(Five.concerned + Five.controversial)
        /\ Out("sentiment_positive").n + Out("sentiment_neutral").n
               + Out("sentiment_negative").n = FiveSum
        /\ NoBreakdown =>
               Out("sentiment_positive").n + Out("sentiment_neutral").n
                   + Out("sentiment_negative").n = 100

C18_Witness ==
    /\ Normalized
    /\ platform = "twitter"
    /\ ~NoBreakdown
    /\ Five = [excited |-> 50, concerned |-> 10, curious |-> 20,
               celebrating |-> 15, controversial |-> 5]
    /\ Out("sentiment_positive") = VInt(65)
    /\ Out("sentiment_neutral") = VInt(20)
    /\ Out("sentiment_negative") = VInt(15)

\* the list field validate_trend_schema writes for the platform
ListField == IF platform = "google" THEN "related_searches" ELSE "related_hashtags"
\* s without the whitespace at its two ends
Trimmed(s) ==
    LET ink == {i \in DOMAIN s : s[i] \notin Whitespace}
    IN  IF ink = {} THEN <<>>
        ELSE SubSeq(s, CHOOSE i \in ink : \A j \in ink : i <= j,
                       CHOOSE i \in ink : \A j \in ink : j <= i)
\* the pieces of s between its commas, trimmed, in order
Pieces(s) ==
    LET commas == {i \in DOMAIN s : s[i] = ","}
        cut(k) == IF k = 0 THEN 0
                  ELSE IF k > Cardinality(commas) THEN Len(s) + 1
                  ELSE CHOOSE i \in commas : Cardinality({j \in commas : j < i}) = k - 1
    IN  [k \in 1..(Cardinality(commas) + 1) |-> Trimmed(SubSeq(s, cut(k - 1) + 1, cut(k) - 1))]

\* C19: in a normalized record the platform's list field is a list: a raw list
\* is kept as it is, a raw string gives its comma-separated pieces trimmed, the
\* blank ones dropped, and any other or missing value gives the empty list.
C19_ListFieldIsList ==
    Normalized =>
        LET raw == Get(trend.d, ListField, Absent)
        IN  /\ Out(ListField).t = "list"
            /\ raw.t = "list" => Out(ListField) = raw
            /\ raw.t = "str" =>
                   Out(ListField).l =
                       [k \in DOMAIN SelectSeq(Pieces(raw.s), LAMBDA x : x # <<>>) |->
                           VStr(SelectSeq(Pieces(raw.s), LAMBDA x : x # <<>>)[k])]
            /\ raw = VStr(S_ab_list) => Out(ListField) = VList(<<VStr(<<"a">>), VStr(<<"b">>)>>)
            /\ raw.t \notin {"list", "str"} => Out(ListField) = VList(<<>>)

C19_Witness ==
    /\ Normalized
    /\ platform = "twitter"
    /\ Get(trend.d, "related_hashtags", VNone) = VStr(S_ab_list)
    /\ Out("related_hashtags") = VList(<<VStr(<<"a">>), VStr(<<"b">>)>>)

\* C20: in a normalized record category, context and why_trending are present
\* and are strings; context and why_trending are the empty string when the raw
\* record has the key missing or holds None under it.
C20_TextFieldsAreStrings ==
    Normalized =>
        /\ \A f \in {"category", "context", "why_trending"} :
               f \in DOMAIN result.normalized.d /\ Out(f).t = "str"
        /\ \A f \in {"context", "why_trending"} :
               Get(trend.d, f, VNone) = VNone => Out(f) = VStr(<<>>)

\* C21: in a normalized mention record primary_sentiment is one of excited,
\* concerned, curious, celebrating, controversial, whatever the raw value was.
C21_ClosedSentimentVocabulary ==
    (Normalized /\ platform = "twitter") =>
        Out("primary_sentiment") \in
            {VStr(S_excited), VStr(S_concerned), VStr(S_curious), VStr(S_celebrating),
             VStr(S_controversial)}

ParsedText == pc = "parse_done" /\ text.t = "str" /\ text.s # <<>>
S_object == <<"{", "\"", "a", "\"", ":", "1", "}">>
S_cut_object == <<"{", "\"", "a", "\"", ":", "1", ",">>
\* the candidate from its first '{' to its last '}', the candidate itself when
\* one of the two is missing
SelectedSlice ==
    LET opens == {i \in DOMAIN candidate : candidate[i] = "{"}
        closes == {i \in DOMAIN candidate : candidate[i] = "}"}
    IN  IF opens = {} \/ closes = {} THEN candidate
        ELSE SubSeq(candidate, CHOOSE i \in opens : \A j \in opens : i <= j,
                               CHOOSE i \in closes : \A j \in closes : j <= i)

\* C23: parse_json_input never raises: called on None, the empty string or
\* any other empty value it returns None, called on a string it returns the
\* strict parse of the selected slice or, when that parse fails (an object cut
\* short, a trailing comma), None, with nothing repaired; a value that is no
\* string gives None as well.
C23_ParseNeverRaises ==
    pc = "parse_done" =>
        /\ parsed.exc = ""
        /\ text \in {VNone, VStr(<<>>)} => parsed.value = VNone
        /\ text.t # "str" => parsed.value = VNone
        /\ ParsedText =>
               LET strict == json_loads(SelectedSlice)
               IN  /\ strict.exc # "" => parsed.value = VNone
                   /\ strict.exc = "" => parsed.value = strict.value
                   /\ SelectedSlice \in {S_cut_object, S_cut_object \o <<"}">>} =>
                          parsed.value = VNone

C23_Witness ==
    /\ ParsedText
    /\ text = VStr(<<" ", "h", "i", " ">> \o S_cut_object \o <<"}">>)
    /\ SelectedSlice = S_cut_object \o <<"}">>
    /\ parsed = NoParse

\* C24: a text without any brace gives None, so whatever parse_json_input
\* returns other than None is a JSON object, never an array or a scalar.
C24_NoBraceNoResult ==
    ParsedText =>
        /\ (\A i \in DOMAIN text.s : text.s[i] \notin {"{", "}"}) => parsed.value = VNone
        /\ parsed.value # VNone => parsed.value.t = "dict"

\* the first position from `from` on where sub occurs in s, 0 if there is none
FirstAt(s, sub, from) ==
    IF \E i \in from..Len(s) : OccursAt(s, sub, i)
    THEN CHOOSE i \in from..Len(s) : OccursAt(s, sub, i) /\ \A j \in from..(i - 1) : ~OccursAt(s, sub, j)
    ELSE 0
\* the text holds the object between an opening fence, tagged or not, and a
\* closing fence
FencedObjectAt(i) ==
    \/ OccursAt(text.s, S_fence \o S_object \o S_fence, i)
    \/ OccursAt(text.s, S_json_fence \o S_object \o S_fence, i)
\* the position of the fence the selection starts from: the first json-tagged
\* fence, the first fence when none is tagged, 0 without any fence
OpeningFence ==
    IF FirstAt(text.s, S_json_fence, 1) # 0 THEN FirstAt(text.s, S_json_fence, 1)
    ELSE FirstAt(text.s, S_fence, 1)

\* C25 as stated: a text that holds a well-formed JSON object wrapped in a
\* fence, whatever stands before and after the fence, gives the parse of that
\* object.
C25_FencedObjectReturned ==
    (ParsedText /\ \E i \in DOMAIN text.s : FencedObjectAt(i)) =>
        parsed = json_loads(S_object)

\* C25 amended: a text in which the first json-tagged fence, or the first fence
\* when none is json-tagged, opens a block that holds a well-formed JSON object
\* and is closed by the next fence, gives the parse of that object, whatever
\* stands before the opening fence and after the closing one.
C25_FirstFencedObjectReturned ==
    (ParsedText /\ OpeningFence # 0 /\ FencedObjectAt(OpeningFence)) =>
        parsed = json_loads(S_object)

C25_Witness ==
    /\ ParsedText
    /\ text = VStr(<<"[", "2", "]">> \o S_json_fence \o S_object \o S_fence \o <<"}">>)
    /\ parsed.value = VDict([k \in {<<"a">>} |-> VInt(1)])

\* C26: the candidate is the content, trimmed, between the first json-tagged
\* fence and the next fence marker when the text has a json-tagged fence, also
\* when a plain fenced block comes earlier; else between the first and the
\* second fence marker when it has a fence; else the whole text. No later
\* fenced block contributes.
C26_FenceSelection ==
    ParsedText =>
        LET t == Trimmed(text.s)
            tagged == FirstAt(t, S_json_fence, 1)
            plain == FirstAt(t, S_fence, 1)
            from == IF tagged # 0 THEN tagged + Len(S_json_fence) ELSE plain + Len(S_fence)
            close == FirstAt(t, S_fence, from)
            content == IF plain = 0 THEN t
                       ELSE SubSeq(t, from, IF close = 0 THEN Len(t) ELSE close - 1)
        IN  /\ candidate = Trimmed(content)
            /\ text.s = S_fence \o <<"[", "2", "]">> \o S_json_fence \o S_object \o S_fence =>
                   candidate = S_object
            /\ text.s = S_fence \o <<"[", "2", "]">> \o S_fence \o S_fence \o S_object =>
                   candidate = <<"[", "2", "]">>

C26_Witness ==
    /\ ParsedText
    /\ text.s = S_fence \o <<"[", "2", "]">> \o S_json_fence \o S_object \o S_fence
    /\ candidate = S_object
    /\ parsed.value = VDict([k \in {<<"a">>} |-> VInt(1)])

\* C27: when the candidate holds both '{' and '}' the result is the strict
\* parse of the candidate from its first '{' to its last '}', None when that
\* does not parse: two objects side by side, or a '}' after the closing brace
\* of an object, give None and not the first object.
C27_FirstToLastBrace ==
    (ParsedText /\ {"{", "}"} \subseteq Range(candidate)) =>
        LET strict == json_loads(SelectedSlice)
        IN  /\ parsed.value = IF strict.exc = "" THEN strict.value ELSE VNone
            /\ candidate \in {S_object \o S_object, S_object \o <<"}">>} => parsed.value = VNone

C27_Witness ==
    /\ ParsedText
    /\ candidate = S_object \o S_object
    /\ SelectedSlice = candidate
    /\ parsed = NoParse

\* validate_trend_schema returned is_valid = True for a dict
Accepted == pc = "schema_done" /\ result.exc = "" /\ result.ok /\ trend.t = "dict"
\* the raw keyword is a string of nothing but whitespace
WhitespaceKeyword ==
    /\ trend.t = "dict"
    /\ "keyword" \in DOMAIN trend.d
    /\ trend.d["keyword"].t = "str"
    /\ trend.d["keyword"].s # <<>>
    /\ Trimmed(trend.d["keyword"].s) = <<>>

\* C28: the keyword of an accepted record is the raw keyword as a string
\* without its leading and trailing whitespace, and is not empty; a record
\* whose keyword is only whitespace is not accepted.
C28_KeywordTrimmed ==
    /\ Accepted =>
           LET raw == trend.d["keyword"]
               text_of == IF raw.t = "str" THEN raw.s ELSE PyStr(raw)
           IN  /\ Out("keyword") = VStr(Trimmed(text_of))
               /\ Out("keyword").s # <<>>
               /\ raw = VInt(7) => Out("keyword") = VStr(<<"7">>)
    /\ (pc = "schema_done" /\ WhitespaceKeyword) => ~(result.exc = "" /\ result.ok)

C28_Witness ==
    /\ Accepted
    /\ trend.d["keyword"] = VStr(<<" ", "x", " ">>)
    /\ Out("keyword") = VStr(<<"x">>)
    /\ trend.d["rank"] = VStr(<<"2">>)

\* the record handed to validate_trend_schema has no key f
Omits(f) == trend.t = "dict" /\ f \notin DOMAIN trend.d

\* C29: a normalized search record that omits public_sentiment,
\* sentiment_score or related_searches carries "curious", 50 and [] for it; a
\* normalized mention record that omits primary_sentiment, sentiment_intensity
\* or related_hashtags carries "curious", "moderate" and [] for it.
C29_OptionalDefaults ==
    /\ (Normalized /\ platform = "google") =>
           /\ Omits("public_sentiment") => Out("public_sentiment") = VStr(S_curious)
           /\ Omits("sentiment_score") => Out("sentiment_score") = VInt(50)
           /\ Omits("related_searches") => Out("related_searches") = VList(<<>>)
    /\ (Normalized /\ platform = "twitter") =>
           /\ Omits("primary_sentiment") => Out("primary_sentiment") = VStr(S_curious)
           /\ Omits("sentiment_intensity") => Out("sentiment_intensity") = VStr(S_moderate)
           /\ Omits("related_hashtags") => Out("related_hashtags") = VList(<<>>)

C29_Witness ==
    /\ Normalized
    /\ platform = "twitter"
    /\ Omits("primary_sentiment") /\ Omits("sentiment_intensity") /\ Omits("related_hashtags")
    /\ Out("primary_sentiment") = VStr(S_curious)
    /\ Out("sentiment_intensity") = VStr(S_moderate)
    /\ Out("related_hashtags") = VList(<<>>)
    /\ "context" \in DOMAIN trend.d

\* every row whose status is 'finalized' has a finalized_at
FinalizedStamped ==
    \A i \in DOMAIN table : table[i].status = "finalized" => table[i].finalized_at # VNone
\* a step keeps every row, and every finalized_at that was set stays set
StampKept ==
    \A i \in DOMAIN table :
        /\ i \in DOMAIN table'
        /\ table'[i].id = table[i].id
        /\ table[i].finalized_at # VNone => table'[i].finalized_at # VNone

\* C30: whatever save_deepdive_to_db and update_deepdive_status calls were
\* made, every row with status 'finalized' has a non-null finalized_at, and no
\* call clears a finalized_at that was set.
C30_StatusLifecycle == [](FinalizedStamped) /\ [][StampKept]_vars

C30_Witness ==
    /\ Len(table) = 2
    /\ table[1].status = "published"
    /\ table[1].created_at = Timestamp(1)
    /\ table[1].finalized_at = Timestamp(2)
    /\ table[1].updated_at = Timestamp(4)
    /\ table[2].status = "finalized"
    /\ table[2].finalized_at = Timestamp(3)
    /\ table[2].created_at = Timestamp(3)

====
